---- MODULE Spec2Model ----
(***************************************************************************)
(* Swap instruction of the constant-product AMM                            *)
(* (programs/amm/src/instructions/swap.rs).                                *)
(*                                                                         *)
(* Token amounts are u64 and the quote is computed in u128.  The model     *)
(* checker's integers are narrower than either, so the quote is computed   *)
(* on unbounded naturals written as little-endian sequences of base-10^4   *)
(* limbs, and every Rust operation is applied with its width: a result is  *)
(* reduced modulo 2^128 (or 2^64 for `as u64`) and the step records        *)
(* whether the exact value fitted.                                         *)
(***************************************************************************)
EXTENDS Integers, Sequences, FiniteSets, TLC

(***************************************************************************)
(* Unbounded naturals.  <<>> is 0; a value has no leading zero limb.       *)
(***************************************************************************)
Base == 10000

RECURSIVE ToBig(_)
ToBig(n) == IF n = 0 THEN <<>> ELSE <<n % Base>> \o ToBig(n \div Base)

RECURSIVE FromBig(_)
FromBig(a) == IF a = <<>> THEN 0 ELSE a[1] + Base * FromBig(Tail(a))

RECURSIVE BNorm(_)
BNorm(a) ==
    IF a = <<>> THEN <<>>
    ELSE IF a[Len(a)] = 0 THEN BNorm(SubSeq(a, 1, Len(a) - 1))
    ELSE a

RECURSIVE BAddC(_, _, _)
BAddC(a, b, c) ==
    IF a = <<>> /\ b = <<>> THEN (IF c = 0 THEN <<>> ELSE <<c>>)
    ELSE LET x == IF a = <<>> THEN 0 ELSE a[1]
             y == IF b = <<>> THEN 0 ELSE b[1]
             s == x + y + c
         IN  <<s % Base>> \o BAddC(IF a = <<>> THEN <<>> ELSE Tail(a),
                                   IF b = <<>> THEN <<>> ELSE Tail(b),
                                   s \div Base)

BAdd(a, b) == BAddC(a, b, 0)

RECURSIVE BCmpFrom(_, _, _)
BCmpFrom(a, b, i) ==
    IF i = 0 THEN 0
    ELSE IF a[i] < b[i] THEN -1
    ELSE IF a[i] > b[i] THEN 1
    ELSE BCmpFrom(a, b, i - 1)

\* -1, 0 or 1 as a < b, a = b or a > b
BCmp(a, b) ==
    IF Len(a) < Len(b) THEN -1
    ELSE IF Len(a) > Len(b) THEN 1
    ELSE BCmpFrom(a, b, Len(a))

BLeq(a, b) == BCmp(a, b) <= 0
BLess(a, b) == BCmp(a, b) < 0

RECURSIVE BSubC(_, _, _)
BSubC(a, b, c) ==
    IF a = <<>> THEN <<>>
    ELSE LET y == IF b = <<>> THEN 0 ELSE b[1]
             d == a[1] - y - c
         IN  <<IF d < 0 THEN d + Base ELSE d>>
                 \o BSubC(Tail(a), IF b = <<>> THEN <<>> ELSE Tail(b),
                          IF d < 0 THEN 1 ELSE 0)

\* a - b for a >= b
BSub(a, b) == BNorm(BSubC(a, b, 0))

RECURSIVE BMulSmallC(_, _, _)
BMulSmallC(a, m, c) ==
    IF a = <<>> THEN (IF c = 0 THEN <<>> ELSE <<c>>)
    ELSE LET p == a[1] * m + c
         IN  <<p % Base>> \o BMulSmallC(Tail(a), m, p \div Base)

\* a * m for a limb m in 0 .. Base - 1
BMulSmall(a, m) == IF m = 0 THEN <<>> ELSE BMulSmallC(a, m, 0)

BShift(a) == IF a = <<>> THEN <<>> ELSE <<0>> \o a

RECURSIVE BMulLong(_, _)
BMulLong(a, b) ==
    IF b = <<>> THEN <<>>
    ELSE BAdd(BMulSmall(a, b[1]), BShift(BMulLong(a, Tail(b))))

\* a * b; one-limb factors are multiplied as machine integers
BMul(a, b) ==
    IF Len(a) <= 1 /\ Len(b) <= 1 THEN ToBig(FromBig(a) * FromBig(b))
    ELSE BMulLong(a, b)

\* the largest k in lo .. hi with k * d <= t
RECURSIVE BDigit(_, _, _, _)
BDigit(t, d, lo, hi) ==
    IF lo = hi THEN lo
    ELSE LET mid == (lo + hi + 1) \div 2
         IN  IF BLeq(BMulSmall(d, mid), t)
             THEN BDigit(t, d, mid, hi)
             ELSE BDigit(t, d, lo, mid - 1)

\* floor(t / d) for d # 0 and t < Base * d: the search starts from the bounds
\* that the leading limbs of t and d give
BQuotientLimb(t, d) ==
    IF BLess(t, d) THEN 0
    ELSE IF Len(t) <= 2 THEN FromBig(t) \div FromBig(d)
    ELSE LET m == Len(d)
             top == (IF Len(t) > m THEN t[m + 1] * Base ELSE 0) + t[m]
             lo == top \div (d[m] + 1)
             hi == top \div d[m]
         IN  BDigit(t, d, lo, IF hi < Base THEN hi ELSE Base - 1)

RECURSIVE BDivLong(_, _)
BDivLong(n, d) ==
    IF n = <<>> THEN [q |-> <<>>, r |-> <<>>]
    ELSE LET hi == BDivLong(Tail(n), d)
         IN  IF hi.r = <<>> /\ n[1] = 0
             THEN [q |-> BShift(hi.q), r |-> <<>>]
             ELSE LET t == BNorm(<<n[1]>> \o hi.r)
                      k == BQuotientLimb(t, d)
                  IN  [q |-> BNorm(<<k>> \o hi.q),
                       r |-> BSub(t, BMulSmall(d, k))]

\* quotient and remainder of n by d, for d # 0: as machine integers when both
\* have at most two limbs, else by long division, one limb a step
BDivMod(n, d) ==
    IF Len(n) <= 2 /\ Len(d) <= 2
    THEN [q |-> ToBig(FromBig(n) \div FromBig(d)),
          r |-> ToBig(FromBig(n) % FromBig(d))]
    ELSE BDivLong(n, d)

BDiv(n, d) == BDivMod(n, d).q
BMod(n, d) == BDivMod(n, d).r


RECURSIVE BPow2(_)
BPow2(n) ==
    IF n = 0 THEN <<1>>
    ELSE IF n % 2 = 0 THEN LET h == BPow2(n \div 2) IN BMul(h, h)
    ELSE BMulSmall(BPow2(n - 1), 2)

Zero == <<>>

(***************************************************************************)
(* Rust integer operations at their widths.  Each yields the value the     *)
(* wrapping build computes and `ok`, FALSE when the exact result does not  *)
(* fit (the step panics under overflow checks) or the divisor is zero.     *)
(***************************************************************************)
U64Bits == 64
U128Bits == 128
U64Modulus == BPow2(U64Bits)
U128Modulus == BPow2(U128Bits)

Wrap(v, modulus) == IF BLess(v, modulus) THEN v ELSE BMod(v, modulus)

\* Mutant of Mul128: the product taken in u64, the operands not widened
Mul64(a, b) ==
    LET p == BMul(a, b) IN [v |-> Wrap(p, U64Modulus), ok |-> BLess(p, U64Modulus)]

\* a * b in u128
Mul128(a, b) ==
    LET p == BMul(a, b) IN [v |-> Wrap(p, U128Modulus), ok |-> BLess(p, U128Modulus)]

\* a + b in u128
Add128(a, b) ==
    LET p == BAdd(a, b) IN [v |-> Wrap(p, U128Modulus), ok |-> BLess(p, U128Modulus)]

\* a - b in u128
Sub128(a, b) ==
    IF BLeq(b, a) THEN [v |-> BSub(a, b), ok |-> TRUE]
    ELSE [v |-> BSub(BAdd(a, U128Modulus), b), ok |-> FALSE]

\* a / b in u128; the caller tests b # Zero first (division by zero panics)
Div128(a, b) == BDiv(a, b)

\* `x as u64` of a u128: truncation to the low 64 bits
AsU64(a) == [v |-> Wrap(a, U64Modulus), ok |-> BLess(a, U64Modulus)]

TenThousand == ToBig(10000)
PriceScale == ToBig(1000000)

Faulty(label, ok) == IF ok THEN {} ELSE {label}

Verdict(err, aiwf, out, expected, executed, slip, faults) ==
    [err |-> err, amount_in_with_fee |-> aiwf, amount_out |-> out,
     expected_price |-> expected, executed_price |-> executed,
     actual_slippage_bps |-> slip, faults |-> faults]

Reject(err) == Verdict(err, Zero, Zero, Zero, Zero, Zero, {})

(***************************************************************************)
(* Swap::swap up to the settlement (swap.rs lines 56-98): the checks in    *)
(* the order of the code, and the quote.  err is "" when every check       *)
(* passes, "Panic" when a division by zero is reached, else the AmmError.  *)
(* faults names the steps reached whose exact result did not fit.          *)
(* PriceStage is lines 82-93.                                              *)
(***************************************************************************)
PriceStage(src, dst, aiwf, out, faults0) ==
    LET scaledDst == Mul128(dst, PriceScale)
        expected_price == Div128(scaledDst.v, src)
        scaledOut == Mul128(out, PriceScale)
        faults1 == faults0 \cup Faulty("vault_dst * 1_000_000", scaledDst.ok)
                           \cup Faulty("amount_out * 1_000_000", scaledOut.ok)
    IN  IF src = Zero
        THEN Verdict("Panic", aiwf, out, Zero, Zero, Zero,
                     faults1 \cup {"/ vault_src"})
        ELSE IF aiwf = Zero
        THEN Verdict("Panic", aiwf, out, expected_price, Zero, Zero,
                     faults1 \cup {"/ amount_in_with_fee"})
        ELSE
        LET executed_price == Div128(scaledOut.v, aiwf)
        IN  IF ~BLess(Zero, expected_price)
            THEN Verdict("InvalidAmount", aiwf, out, expected_price,
                         executed_price, Zero, faults1)
            ELSE
            LET diff == Sub128(expected_price, executed_price)
                scaledDiff == Mul128(diff.v, TenThousand)
                improved == ~BLeq(executed_price, expected_price)
                actual_slippage_bps ==
                    IF improved THEN Zero ELSE Div128(scaledDiff.v, expected_price)
                faults2 ==
                    IF improved THEN faults1
                    ELSE faults1
                           \cup Faulty("expected_price - executed_price", diff.ok)
                           \cup Faulty("(expected - executed) * 10_000", scaledDiff.ok)
            IN  Verdict("", aiwf, out, expected_price, executed_price,
                        actual_slippage_bps, faults2)

\* Mutant of Quote: the fee rate applied in place of its complement
QuoteFeeAsRate(feev, src, dst, amount_in) ==
    LET gross == Mul128(amount_in, feev)
        amount_in_with_fee == Div128(gross.v, TenThousand)
        numer == Mul128(amount_in_with_fee, dst)
        denom == Add128(src, amount_in_with_fee)
        narrowed == IF denom.v = Zero THEN [v |-> Zero, ok |-> TRUE]
                    ELSE AsU64(Div128(numer.v, denom.v))
    IN  [amount_in_with_fee |-> amount_in_with_fee,
         amount_out |-> narrowed.v,
         zero_divisor |-> denom.v = Zero,
         faults |-> Faulty("amount_in * (10_000 - fee)", gross.ok)
                      \cup Faulty("amount_in_with_fee * vault_dst", numer.ok)
                      \cup Faulty("vault_src + amount_in_with_fee", denom.ok)
                      \cup Faulty("as u64", narrowed.ok)]

\* Mutant of Quote: the input left out of the divisor
QuoteSpotPrice(feev, src, dst, amount_in) ==
    LET feeCompl == Sub128(TenThousand, feev)
        gross == Mul128(amount_in, feeCompl.v)
        amount_in_with_fee == Div128(gross.v, TenThousand)
        numer == Mul128(amount_in_with_fee, dst)
        narrowed == IF src = Zero THEN [v |-> Zero, ok |-> TRUE]
                    ELSE AsU64(Div128(numer.v, src))
    IN  [amount_in_with_fee |-> amount_in_with_fee,
         amount_out |-> narrowed.v,
         zero_divisor |-> src = Zero,
         faults |-> Faulty("10_000 - fee", feeCompl.ok)
                      \cup Faulty("amount_in * (10_000 - fee)", gross.ok)
                      \cup Faulty("amount_in_with_fee * vault_dst", numer.ok)
                      \cup Faulty("as u64", narrowed.ok)]

\* the quote of lines 71-73: the input after the fee, and the output
Quote(feev, src, dst, amount_in) ==
    LET feeCompl == Sub128(TenThousand, feev)
        gross == Mul128(amount_in, feeCompl.v)
        amount_in_with_fee == Div128(gross.v, TenThousand)
        numer == Mul128(amount_in_with_fee, dst)
        denom == Add128(src, amount_in_with_fee)
        narrowed == IF denom.v = Zero THEN [v |-> Zero, ok |-> TRUE]
                    ELSE AsU64(Div128(numer.v, denom.v))
    IN  [amount_in_with_fee |-> amount_in_with_fee,
         amount_out |-> narrowed.v,
         zero_divisor |-> denom.v = Zero,
         faults |-> Faulty("10_000 - fee", feeCompl.ok)
                      \cup Faulty("amount_in * (10_000 - fee)", gross.ok)
                      \cup Faulty("amount_in_with_fee * vault_dst", numer.ok)
                      \cup Faulty("vault_src + amount_in_with_fee", denom.ok)
                      \cup Faulty("as u64", narrowed.ok)]

QuoteStage(feev, src, dst, amount_in) ==
    LET q == Quote(feev, src, dst, amount_in)
    IN  IF q.zero_divisor
        THEN Verdict("Panic", q.amount_in_with_fee, Zero, Zero, Zero, Zero,
                     q.faults \cup {"/ (vault_src + amount_in_with_fee)"})
        ELSE IF q.amount_out = Zero
        THEN Verdict("InvalidAmount", q.amount_in_with_fee, q.amount_out,
                     Zero, Zero, Zero, q.faults)
        ELSE IF ~BLeq(q.amount_out, dst)
        THEN Verdict("LiquidityLessThanMinimum", q.amount_in_with_fee,
                     q.amount_out, Zero, Zero, Zero, q.faults)
        ELSE PriceStage(src, dst, q.amount_in_with_fee, q.amount_out, q.faults)

\* Mutant of price_checks: the liquidity check made before the balance check
price_checks_liquidity_first(lockedv, feev, user_src_amount, src, dst, amount_in) ==
    IF lockedv THEN Reject("PoolLocked")
    ELSE IF amount_in = Zero THEN Reject("InvalidAmount")
    ELSE IF ~(BLess(Zero, src) /\ BLess(Zero, dst)) THEN Reject("NoLiquidityInPool")
    ELSE IF ~BLeq(amount_in, user_src_amount) THEN Reject("InsufficientBalance")
    ELSE QuoteStage(feev, src, dst, amount_in)

\* lines 56-93: every check before the slippage bound, and the slippage
price_checks(lockedv, feev, user_src_amount, src, dst, amount_in) ==
    IF lockedv THEN Reject("PoolLocked")
    ELSE IF amount_in = Zero THEN Reject("InvalidAmount")
    ELSE IF ~BLeq(amount_in, user_src_amount) THEN Reject("InsufficientBalance")
    ELSE IF ~(BLess(Zero, src) /\ BLess(Zero, dst)) THEN Reject("NoLiquidityInPool")
    ELSE QuoteStage(feev, src, dst, amount_in)

\* Mutant of slippage_check: the bound itself rejected (< for <=)
slippage_check_strict(priced, slippage) ==
    IF priced.err = "" /\ ~BLess(priced.actual_slippage_bps, slippage)
    THEN [priced EXCEPT !.err = "SlippageExceeded"]
    ELSE priced

\* lines 95-98: require!(actual_slippage_bps <= slippage as u128, SlippageExceeded)
slippage_check(priced, slippage) ==
    IF priced.err = "" /\ ~BLeq(priced.actual_slippage_bps, slippage)
    THEN [priced EXCEPT !.err = "SlippageExceeded"]
    ELSE priced

\* lines 56-98
swap_checks(lockedv, feev, user_src_amount, src, dst, amount_in, slippage) ==
    slippage_check(
        price_checks(lockedv, feev, user_src_amount, src, dst, amount_in),
        slippage)

(***************************************************************************)
(* Token accounts and the settlement (swap.rs lines 59-63, 100-143).       *)
(***************************************************************************)
Accounts == {"user_x", "user_y", "vault_x", "vault_y"}

\* line 59-63: (user_src, user_dst, vault_src, vault_dst)
Sides(x_to_y) ==
    IF x_to_y
    THEN [user_src |-> "user_x", user_dst |-> "user_y",
          vault_src |-> "vault_x", vault_dst |-> "vault_y"]
    ELSE [user_src |-> "user_y", user_dst |-> "user_x",
          vault_src |-> "vault_y", vault_dst |-> "vault_x"]

\* The token program's transfer: it moves `amt` from `from` to `to`, and fails,
\* moving nothing, when `from` holds less or when the custody layer rejects
\* the call for a reason of its own (`accepted` is FALSE).
Transfer(bal, from, to, amt, accepted) ==
    IF accepted /\ bal[from] >= amt
    THEN [ok |-> TRUE, bal |-> [a \in Accounts |->
                                  IF a = from /\ a = to THEN bal[a]
                                  ELSE IF a = from THEN bal[a] - amt
                                  ELSE IF a = to THEN bal[a] + amt
                                  ELSE bal[a]]]
    ELSE [ok |-> FALSE, bal |-> bal]

\* Swap::to_vault(user, vault, amount): from `user` to `vault`
to_vault(bal, user, vault, amt, accepted) == Transfer(bal, user, vault, amt, accepted)

\* Swap::to_user(user, vault, amount): from `vault` to `user`
to_user(bal, user, vault, amt, accepted) == Transfer(bal, vault, user, amt, accepted)

\* Mutant of Settle: the error of the second transfer dropped
SettleIgnoringPayout(bal, side, amount_in, amount_out, custody) ==
    LET first == to_vault(bal, side.user_src, side.vault_dst, amount_in,
                          custody # "reject_first")
    IN  IF ~first.ok THEN [result |-> "TransferFailed", bal |-> first.bal]
        ELSE [result |-> "Ok",
              bal |-> to_user(first.bal, side.user_dst, side.vault_src,
                              amount_out, custody # "reject_second").bal]

\* lines 100-101: self.to_vault(user_src, vault_dst, amount_in)?;
\*                self.to_user(user_dst, vault_src, amount_out)
Settle(bal, side, amount_in, amount_out, custody) ==
    LET first == to_vault(bal, side.user_src, side.vault_dst, amount_in,
                          custody # "reject_first")
    IN  IF ~first.ok THEN [result |-> "TransferFailed", bal |-> first.bal]
        ELSE LET second == to_user(first.bal, side.user_dst, side.vault_src,
                                   amount_out, custody # "reject_second")
             IN  [result |-> IF second.ok THEN "Ok" ELSE "TransferFailed",
                  bal |-> second.bal]

\* The host runs an instruction as one transaction: the account changes of an
\* instruction that returns an error are discarded.
Commit(before, outcome) ==
    IF outcome.result = "Ok" THEN outcome.bal ELSE before

VARIABLES
    locked,     \* config.locked
    fee,        \* config.fee (basis points)
    amount,     \* TokenAccount.amount of user_x, user_y, vault_x, vault_y
    result,     \* what the last call of swap returned ("None" before any call)
    call,       \* the last call: its arguments, the balances before it, its quote
    wide        \* a quote evaluated at full width (SpecWide)

vars == <<locked, fee, amount, result, call, wide>>

\* Swap::swap, lines 55-102, on the current accounts, given its quote `v`
swap(x_to_y, amount_in, v, custody) ==
    IF v.err # ""
    THEN [result |-> v.err, bal |-> amount, quote |-> v]
    ELSE LET s == Settle(amount, Sides(x_to_y), amount_in,
                         FromBig(v.amount_out), custody)
         IN  [result |-> s.result, bal |-> s.bal, quote |-> v]

\* lines 56-93 on the current accounts
priced(x_to_y, amount_in) ==
    LET side == Sides(x_to_y)
    IN  price_checks(locked, ToBig(fee), ToBig(amount[side.user_src]),
                     ToBig(amount[side.vault_src]), ToBig(amount[side.vault_dst]),
                     ToBig(amount_in))

\* An overflowing step panics in a build with overflow checks and wraps in a
\* build without: both outcomes are possible where a step did not fit.
Outcomes(o) ==
    {o} \cup (IF o.quote.faults = {} THEN {}
              ELSE {[result |-> "Panic", bal |-> o.bal, quote |-> o.quote]})

NoCall ==
    [x_to_y |-> TRUE, amount_in |-> 0, slippage |-> 0, custody |-> "not_called",
     before |-> [a \in Accounts |-> 0], quote |-> Reject("")]

NoWide ==
    [fee |-> Zero, user_src |-> Zero, src |-> Zero, dst |-> Zero,
     amount_in |-> Zero, slippage |-> Zero, done |-> FALSE,
     verdict |-> Reject("")]

(***************************************************************************)
(* Bounds of the model.                                                    *)
(***************************************************************************)
MaxReserve == 3      \* each vault starts with 0 .. MaxReserve
UserFunds == 2       \* each user account starts with UserFunds
MaxAmountIn == 3     \* amount_in of a call is 0 .. MaxAmountIn

Fees == {0, 30, 10000}
Slippages == {0, 4999, 5000}
Custody == {"accept", "reject_first", "reject_second"}

\* the transfers are called only when every check has passed
CustodyChoices(v) == IF v.err = "" THEN Custody ELSE {"not_called"}

Init ==
    /\ locked \in BOOLEAN
    /\ fee \in Fees
    /\ \E vx \in 0 .. MaxReserve, vy \in 0 .. MaxReserve :
          amount = [a \in Accounts |->
                      IF a = "vault_x" THEN vx
                      ELSE IF a = "vault_y" THEN vy
                      ELSE UserFunds]
    /\ result = "None"
    /\ call = NoCall
    /\ wide = NoWide

\* one call of the swap instruction, `p` being priced(x_to_y, amount_in); what
\* the custody layer does with the two transfers is the environment's choice
Swap(x_to_y, amount_in, slippage, p) ==
    LET v == slippage_check(p, ToBig(slippage))
    IN  \E custody \in CustodyChoices(v) :
        \E o \in Outcomes(swap(x_to_y, amount_in, v, custody)) :
            /\ result' = o.result
            /\ amount' = Commit(amount, o)
            /\ call' = [x_to_y |-> x_to_y, amount_in |-> amount_in,
                        slippage |-> slippage, custody |-> custody,
                        before |-> amount, quote |-> o.quote]
            /\ UNCHANGED <<locked, fee, wide>>

Next ==
    \E x_to_y \in BOOLEAN, amount_in \in 0 .. MaxAmountIn :
        LET p == priced(x_to_y, amount_in)
        IN  \E slippage \in Slippages : Swap(x_to_y, amount_in, slippage, p)

Spec == Init /\ [][Next]_vars

(***************************************************************************)
(* The pool of the worked example: reserves of 1,000,000 each, a fee of    *)
(* 30 basis points, and calls of 10,000 units.                             *)
(***************************************************************************)
ExamplePool == [reserve |-> 1000000, fee |-> 30, amount_in |-> 10000]
ExampleUserFunds == {10000, 15000, 20000, 25000, 30000, 35000}
ExampleSlippages == {96, 97, 98, 99}

InitExample ==
    /\ locked = FALSE
    /\ fee = ExamplePool.fee
    /\ \E ux \in ExampleUserFunds :
          amount = [a \in Accounts |->
                      IF a \in {"vault_x", "vault_y"} THEN ExamplePool.reserve
                      ELSE IF a = "user_x" THEN ux
                      ELSE 0]
    /\ result = "None"
    /\ call = NoCall
    /\ wide = NoWide

NextExample ==
    \E x_to_y \in BOOLEAN :
        LET p == priced(x_to_y, ExamplePool.amount_in)
        IN  \E slippage \in ExampleSlippages :
                Swap(x_to_y, ExamplePool.amount_in, slippage, p)

SpecExample == InitExample /\ [][NextExample]_vars

(***************************************************************************)
(* The checks and the quote at the full width of the types: amounts and    *)
(* reserves up to 2^64 - 1.                                                *)
(***************************************************************************)
U16Max == ToBig(65535)
U64Max == BSub(U64Modulus, ToBig(1))
WideAmounts == {Zero, ToBig(1), BPow2(32), U64Max}
WideFees == {Zero, ToBig(30), TenThousand}

\* a caller who holds exactly amount_in, or one unit less
WideHoldings(a) == {a} \cup (IF a = Zero THEN {} ELSE {BSub(a, ToBig(1))})

InitWide ==
    /\ locked \in BOOLEAN
    /\ fee = 0
    /\ amount = [a \in Accounts |-> 0]
    /\ result = "None"
    /\ call = NoCall
    /\ \E f \in WideFees, s \in WideAmounts, d \in WideAmounts,
          a \in WideAmounts, sl \in {Zero, U16Max} :
          \E u \in WideHoldings(a) :
             wide = [fee |-> f, user_src |-> u, src |-> s, dst |-> d,
                     amount_in |-> a, slippage |-> sl, done |-> FALSE,
                     verdict |-> Reject("")]

\* lines 56-98 on full-width amounts
WideSwap ==
    /\ ~wide.done
    /\ wide' = [wide EXCEPT
                  !.done = TRUE,
                  !.verdict = swap_checks(locked, wide.fee, wide.user_src,
                                          wide.src, wide.dst, wide.amount_in,
                                          wide.slippage)]
    /\ UNCHANGED <<locked, fee, amount, result, call>>

NextWide == WideSwap

SpecWide == InitWide /\ [][NextWide]_vars

(***************************************************************************)
(* The statements checked.  The specification's formulas are written here  *)
(* on exact naturals, independently of the widths above.                   *)
(***************************************************************************)
ExactAfterFee(a, f) == BDiv(BMul(a, BSub(TenThousand, f)), TenThousand)

ExactOut(a, f, s, d) ==
    BDiv(BMul(ExactAfterFee(a, f), d), BAdd(s, ExactAfterFee(a, f)))

ExactExpected(s, d) == BDiv(BMul(d, PriceScale), s)

ExactExecuted(a, f, s, d) ==
    BDiv(BMul(ExactOut(a, f, s, d), PriceScale), ExactAfterFee(a, f))

ExactSlippage(a, f, s, d) ==
    LET e == ExactExpected(s, d)
        x == ExactExecuted(a, f, s, d)
    IN  IF BLeq(x, e) THEN BDiv(BMul(BSub(e, x), TenThousand), e) ELSE Zero

\* the error of the first failing check, in the order the specification
\* lists them; "" when none fails
FirstFailure(l, f, u, s, d, a, sl) ==
    IF l THEN "PoolLocked"
    ELSE IF a = Zero THEN "InvalidAmount"
    ELSE IF BLess(u, a) THEN "InsufficientBalance"
    ELSE IF s = Zero \/ d = Zero THEN "NoLiquidityInPool"
    ELSE IF ExactOut(a, f, s, d) = Zero THEN "InvalidAmount"
    ELSE IF BLess(d, ExactOut(a, f, s, d)) THEN "LiquidityLessThanMinimum"
    ELSE IF ExactExpected(s, d) = Zero THEN "InvalidAmount"
    ELSE IF BLess(sl, ExactSlippage(a, f, s, d)) THEN "SlippageExceeded"
    ELSE ""

Called == result # "None"
Side == Sides(call.x_to_y)
UserSrcBefore == call.before[Side.user_src]
UserDstBefore == call.before[Side.user_dst]
SrcBefore == call.before[Side.vault_src]
DstBefore == call.before[Side.vault_dst]
PaidOut == FromBig(call.quote.amount_out)

\* the custody layer rejected one of the two transfers of the last call
CustodyRejected == call.custody \in {"reject_first", "reject_second"}

\* the last call got as far as computing the quote
ReachedQuote ==
    /\ Called /\ ~locked /\ call.amount_in # 0
    /\ UserSrcBefore >= call.amount_in
    /\ SrcBefore > 0 /\ DstBefore > 0

\* the last call passed every check before the slippage check
ReachedSlippage ==
    /\ ReachedQuote
    /\ call.quote.amount_out # Zero
    /\ call.quote.expected_price # Zero
    /\ result # "LiquidityLessThanMinimum"

\* C1: every successful swap moves amount_in from the user's source account
\* to the source reserve and amount_out from the destination reserve to the
\* user's destination account.
C1_SettlesSrcToSrc ==
    result = "Ok" =>
        /\ amount[Side.user_src] = UserSrcBefore - call.amount_in
        /\ amount[Side.vault_src] = SrcBefore + call.amount_in
        /\ amount[Side.vault_dst] = DstBefore - PaidOut
        /\ amount[Side.user_dst] = UserDstBefore + PaidOut

\* C2: a call that returns an error leaves all four balances as they were,
\* and no call takes amount_in from the user without paying amount_out.
C2_AllOrNothing ==
    /\ (Called /\ result # "Ok") => amount = call.before
    /\ (Called /\ amount[Side.user_src] < UserSrcBefore)
          => amount[Side.user_dst] = UserDstBefore + PaidOut

\* a call whose first transfer went through and whose second failed
C2_Witness ==
    /\ result = "TransferFailed"
    /\ call.custody # "reject_first"
    /\ amount = call.before

\* C3: after a successful swap the product of the two reserves is not below
\* the product before it.
C3_ProductNotShrinking ==
    result = "Ok" =>
        amount[Side.vault_src] * amount[Side.vault_dst] >= SrcBefore * DstBefore

\* C4: swap returns the error of the first check that fails, in the order
\* PoolLocked, InvalidAmount (amount_in = 0), InsufficientBalance,
\* NoLiquidityInPool, InvalidAmount (amount_out = 0), LiquidityLessThanMinimum,
\* InvalidAmount (expected_price = 0), SlippageExceeded; a locked pool
\* returns PoolLocked whatever the rest.
C4_FirstFailingCheck ==
    wide.done =>
        /\ wide.verdict.err =
              FirstFailure(locked, wide.fee, wide.user_src, wide.src, wide.dst,
                           wide.amount_in, wide.slippage)
        /\ locked => wide.verdict.err = "PoolLocked"

\* the check of expected_price is the first to fail
C4_Witness ==
    /\ wide.done
    /\ wide.verdict.err = "InvalidAmount"
    /\ wide.verdict.amount_out # Zero

\* C5: past the earlier checks, the slippage is
\* floor((expected - executed) * 10000 / expected), or 0 when executed exceeds
\* expected; the call fails with SlippageExceeded exactly when that exceeds
\* the caller's bound, and it succeeds when the bound equals the slippage.
C5_SlippageBoundary ==
    ReachedSlippage =>
        LET slip == ExactSlippage(ToBig(call.amount_in), ToBig(fee),
                                  ToBig(SrcBefore), ToBig(DstBefore))
        IN  /\ call.quote.actual_slippage_bps = slip
            /\ (result = "SlippageExceeded") <=> BLess(ToBig(call.slippage), slip)
            /\ (ToBig(call.slippage) = slip /\ ~CustodyRejected)
                  => result = "Ok"
            /\ BAdd(ToBig(call.slippage), ToBig(1)) = slip
                  => result = "SlippageExceeded"

\* C8: the output is strictly below the destination reserve, so no call
\* returns LiquidityLessThanMinimum.
C8_GuardUnreachable ==
    /\ result # "LiquidityLessThanMinimum"
    /\ ReachedQuote => PaidOut < DstBefore

\* a successful swap whose output is one unit short of the destination reserve
C8_Witness ==
    /\ result = "Ok"
    /\ PaidOut = DstBefore - 1

\* C9: at the full width of the types no step of the quote overflows,
\* underflows, divides by zero or loses bits in the narrowing to u64.
C9_ArithmeticWellDefined ==
    wide.done => wide.verdict.faults = {} /\ wide.verdict.err # "Panic"

\* every step is reached with amount_in and both reserves at 2^64 - 1
C9_Witness ==
    /\ wide.done
    /\ wide.amount_in = U64Max /\ wide.src = U64Max /\ wide.dst = U64Max
    /\ wide.verdict.err = ""

\* C10: each asset is conserved by every call: user_x + vault_x and
\* user_y + vault_y keep their values.
C10_AssetConserved ==
    Called =>
        /\ amount["user_x"] + amount["vault_x"]
              = call.before["user_x"] + call.before["vault_x"]
        /\ amount["user_y"] + amount["vault_y"]
              = call.before["user_y"] + call.before["vault_y"]

\* the call of the worked example: X to Y, 10,000 units, on the pool of
\* 1,000,000 / 1,000,000 at 30 basis points
ExampleCall ==
    /\ Called /\ ~locked /\ fee = 30
    /\ call.x_to_y /\ call.amount_in = 10000
    /\ call.before["vault_x"] = 1000000 /\ call.before["vault_y"] = 1000000
    /\ call.before["user_x"] >= 10000

\* C6 as written: the example's quote is 9970, 9871, 1,000,000, 990,270 and
\* 97 basis points; the call succeeds with a bound of 97 and fails with
\* SlippageExceeded with a bound of 96.
C6_ExampleAsWritten ==
    ExampleCall =>
        /\ call.quote.amount_in_with_fee = ToBig(9970)
        /\ call.quote.amount_out = ToBig(9871)
        /\ call.quote.expected_price = ToBig(1000000)
        /\ call.quote.executed_price = ToBig(990270)
        /\ call.quote.actual_slippage_bps = ToBig(97)
        /\ (call.slippage = 97 /\ ~CustodyRejected) => result = "Ok"
        /\ call.slippage = 96 => result = "SlippageExceeded"

\* C6 amended: the example's quote is 9970, 9871, 1,000,000, 990,070 and
\* 99 basis points; the call succeeds with a bound of 99, unless the custody
\* layer rejects a transfer, and fails with SlippageExceeded with 98.
C6_ExampleCorrected ==
    ExampleCall =>
        /\ call.quote.amount_in_with_fee = ToBig(9970)
        /\ call.quote.amount_out = ToBig(9871)
        /\ call.quote.expected_price = ToBig(1000000)
        /\ call.quote.executed_price = ToBig(990070)
        /\ call.quote.actual_slippage_bps = ToBig(99)
        /\ (call.slippage = 99 /\ ~CustodyRejected) => result = "Ok"
        /\ call.slippage = 98 => result = "SlippageExceeded"

\* the example call made with a bound of 99, which succeeds
C6_Witness ==
    /\ ExampleCall
    /\ call.slippage = 99
    /\ result = "Ok"

\* amount_out of the quote on the reserves of the last call
OutAt(a, f) ==
    Quote(ToBig(f), ToBig(SrcBefore), ToBig(DstBefore), ToBig(a)).amount_out

\* C7 as written: with the reserves fixed, amount_out strictly increases
\* with amount_in and strictly decreases as the fee increases.
C7_StrictlyMonotone ==
    ReachedQuote =>
        /\ \A a \in 1 .. MaxAmountIn :
              /\ a < call.amount_in => BLess(OutAt(a, fee), call.quote.amount_out)
              /\ a > call.amount_in => BLess(call.quote.amount_out, OutAt(a, fee))
        /\ \A f \in Fees :
              /\ f < fee => BLess(call.quote.amount_out, OutAt(call.amount_in, f))
              /\ f > fee => BLess(OutAt(call.amount_in, f), call.quote.amount_out)

\* C7 amended: with the reserves fixed, amount_out never decreases as
\* amount_in increases and never increases as the fee increases.
C7_Monotone ==
    ReachedQuote =>
        /\ \A a \in 1 .. MaxAmountIn :
              /\ a < call.amount_in => BLeq(OutAt(a, fee), call.quote.amount_out)
              /\ a > call.amount_in => BLeq(call.quote.amount_out, OutAt(a, fee))
        /\ \A f \in Fees :
              /\ f < fee => BLeq(call.quote.amount_out, OutAt(call.amount_in, f))
              /\ f > fee => BLeq(OutAt(call.amount_in, f), call.quote.amount_out)

\* a quote that a smaller input lowers and a smaller fee raises
C7_Witness ==
    /\ ReachedQuote
    /\ \E a \in 1 .. MaxAmountIn :
          a < call.amount_in /\ BLess(OutAt(a, fee), call.quote.amount_out)
    /\ \E f \in Fees :
          f < fee /\ BLess(call.quote.amount_out, OutAt(call.amount_in, f))
====
